---- MODULE Spec2Model ----
(***************************************************************************)
(* Model of src/core/mod.rs: the winit event loop of `run` driving one     *)
(* AppState (window size, wgpu surface configuration, surface).            *)
(*                                                                         *)
(* One step of the model is one invocation of the closure handed to        *)
(* event_loop.run (lines 19-70), i.e. the complete handling of one event.  *)
(* The window system and the GPU are the environment: they choose the      *)
(* events, the window's initial inner size, the surface capabilities and   *)
(* the outcome of Surface::get_current_texture.                            *)
(***************************************************************************)
EXTENDS Integers, Sequences, FiniteSets, TLC

\* ---------------------------------------------------------------- bounds
\* Largest window dimension the environment reports (u32 in the source).
MaxDim == 2
\* Longest list of formats in the surface capabilities.
MaxFormats == 2

VARIABLES
    phase,            \* "failed": AppState::new panicked; "running": closure is
                      \* being called; "destroyed": LoopDestroyed was delivered
    app_state,        \* the AppState captured by the closure
    control_flow,     \* *control_flow
    event,            \* the event handled by the last closure invocation
    calls,            \* wgpu / stderr calls made by the last closure invocation
    passes,           \* render passes begun by the last closure invocation:
                      \* each is the sequence of its colour attachments' clears
    render_result,    \* what app_state.render() returned in that invocation
    redraw_requested  \* window.request_redraw() pending

vars == <<phase, app_state, control_flow, event, calls, passes,
          render_result, redraw_requested>>

\* ------------------------------------------------------------ data types
Dims == 0..MaxDim
PhysicalSize == [width : Dims, height : Dims]

TextureFormats == {"Bgra8Unorm", "Bgra8UnormSrgb", "Rgba8UnormSrgb"}

is_srgb(f) == f \in {"Bgra8UnormSrgb", "Rgba8UnormSrgb"}

FormatLists == UNION { [1..n -> TextureFormats] : n \in 0..MaxFormats }

OwnWindow == "w0"
OtherWindow == "w1"
WindowIds == {OwnWindow, OtherWindow}

\* wgpu::SurfaceError variants, and "Ok" for a successful acquisition.
SurfaceErrors == {"Timeout", "Outdated", "Lost", "OutOfMemory"}
AcquireOutcomes == {"Ok"} \cup SurfaceErrors

\* wgpu::Color { r: 1.0, g: 1.0, b: 1.0, a: 1.0 }, channels in units of 1.0
ClearColor == [r |-> 1, g |-> 1, b |-> 1, a |-> 1]

\* Events as the closure sees them.  Fields a variant does not carry hold
\* "-" (strings) or 0 (numbers).
MkEvent(type, wid, kind, st, key, sz) ==
    [type |-> type, window_id |-> wid, kind |-> kind, state |-> st,
     virtual_keycode |-> key, size |-> sz]

NoSize == [width |-> 0, height |-> 0]
NoEvent == MkEvent("-", "-", "-", "-", "-", NoSize)

CloseRequestedEv(wid) == MkEvent("WindowEvent", wid, "CloseRequested", "-", "-", NoSize)
KeyboardInputEv(wid, st, key) == MkEvent("WindowEvent", wid, "KeyboardInput", st, key, NoSize)
ResizedEv(wid, sz) == MkEvent("WindowEvent", wid, "Resized", "-", "-", sz)
ScaleFactorChangedEv(wid, sz) == MkEvent("WindowEvent", wid, "ScaleFactorChanged", "-", "-", sz)
FocusedEv(wid) == MkEvent("WindowEvent", wid, "Focused", "-", "-", NoSize)
RedrawRequestedEv(wid) == MkEvent("RedrawRequested", wid, "-", "-", "-", NoSize)
MainEventsClearedEv == MkEvent("MainEventsCleared", "-", "-", "-", "-", NoSize)
RedrawEventsClearedEv == MkEvent("RedrawEventsCleared", "-", "-", "-", "-", NoSize)
LoopDestroyedEv == MkEvent("LoopDestroyed", "-", "-", "-", "-", NoSize)

ElementStates == {"Pressed", "Released"}
\* Some(Escape), Some(other key), None
KeyCodes == {"Escape", "A", "None"}

\* -------------------------------------------------------- AppState::new
RECURSIVE find_srgb(_, _)
\* formats.iter().copied().find(|f| f.is_srgb()): index of the first sRGB
\* format at or after i, 0 when there is none.
find_srgb(formats, i) ==
    IF i > Len(formats) THEN 0
    ELSE IF is_srgb(formats[i]) THEN i
    ELSE find_srgb(formats, i + 1)

\* .unwrap_or(surface_capabilities.formats[0]); the argument is evaluated
\* eagerly, so an empty list panics (see new_panics).
choose_surface_format(formats) ==
    IF find_srgb(formats, 1) # 0 THEN formats[find_srgb(formats, 1)]
    ELSE formats[1]

\* The unwrap()s and the indexing of AppState::new that abort start-up.
new_panics(adapter_ok, device_ok, formats) ==
    \/ ~adapter_ok
    \/ ~device_ok
    \/ Len(formats) = 0

\* The AppState built by AppState::new.  `surface` is the configuration
\* last handed to surface.configure.
new(inner_size, formats) ==
    LET surface_config ==
            [format |-> choose_surface_format(formats),
             width |-> inner_size.width,
             height |-> inner_size.height,
             present_mode |-> "Fifo"]
    IN [size |-> inner_size,
        surface_config |-> surface_config,
        surface |-> surface_config,
        window |-> OwnWindow]

\* A placeholder for the variables when AppState::new panicked.
NoAppState ==
    [size |-> NoSize,
     surface_config |-> [format |-> "-", width |-> 0, height |-> 0, present_mode |-> "-"],
     surface |-> [format |-> "-", width |-> 0, height |-> 0, present_mode |-> "-"],
     window |-> OwnWindow]

\* ------------------------------------------------- AppState's operations
\* A "machine" m threads the AppState together with the effects of the
\* current closure invocation: [self, calls, passes, result].
Machine(self) == [self |-> self, calls |-> <<>>, passes |-> <<>>, result |-> "-"]

\* Variants of resize used to test the claims' sensitivity to its code.
\* Forgets line 187 (surface_config.height).
resize_drops_height(m, new_size) ==
    IF new_size.width > 0 /\ new_size.height > 0
    THEN LET cfg == [m.self.surface_config EXCEPT !.width = new_size.width]
         IN [m EXCEPT !.self.size = new_size,
                      !.self.surface_config = cfg,
                      !.self.surface = cfg,
                      !.calls = Append(m.calls, "configure")]
    ELSE m

\* Guard of line 184 written with || instead of &&.
resize_either_positive(m, new_size) ==
    IF new_size.width > 0 \/ new_size.height > 0
    THEN LET cfg == [m.self.surface_config EXCEPT !.width = new_size.width,
                                                  !.height = new_size.height]
         IN [m EXCEPT !.self.size = new_size,
                      !.self.surface_config = cfg,
                      !.self.surface = cfg,
                      !.calls = Append(m.calls, "configure")]
    ELSE m

\* Forgets line 185 (self.size).
resize_keeps_size(m, new_size) ==
    IF new_size.width > 0 /\ new_size.height > 0
    THEN LET cfg == [m.self.surface_config EXCEPT !.width = new_size.width,
                                                  !.height = new_size.height]
         IN [m EXCEPT !.self.surface_config = cfg,
                      !.self.surface = cfg,
                      !.calls = Append(m.calls, "configure")]
    ELSE m

resize(m, new_size) ==
    IF new_size.width > 0 /\ new_size.height > 0
    THEN LET cfg == [m.self.surface_config EXCEPT !.width = new_size.width,
                                                  !.height = new_size.height]
         IN [m EXCEPT !.self.size = new_size,
                      !.self.surface_config = cfg,
                      !.self.surface = cfg,
                      !.calls = Append(m.calls, "configure")]
    ELSE m

\* fn input(&mut self, event) -> bool { false }
input(m, ev) == FALSE

\* fn update(&mut self) {}
update(m) == m

\* Variant of render that presents the frame before submitting the work.
render_presents_first(m, acquired) ==
    IF acquired # "Ok"
    THEN [m EXCEPT !.calls = Append(m.calls, "get_current_texture"),
                   !.result = acquired]
    ELSE [m EXCEPT !.calls = m.calls \o <<"get_current_texture", "create_view",
                                          "create_command_encoder",
                                          "begin_render_pass", "present", "submit">>,
                   !.passes = Append(m.passes, <<ClearColor>>),
                   !.result = "Ok"]

\* render: `acquired` is the outcome of surface.get_current_texture().
render(m, acquired) ==
    IF acquired # "Ok"
    THEN [m EXCEPT !.calls = Append(m.calls, "get_current_texture"),
                   !.result = acquired]
    ELSE [m EXCEPT !.calls = m.calls \o <<"get_current_texture", "create_view",
                                          "create_command_encoder",
                                          "begin_render_pass", "submit", "present">>,
                   !.passes = Append(m.passes, <<ClearColor>>),
                   !.result = "Ok"]

\* ------------------------------------------------- the event-loop closure
\* Variant of the pattern that omits `state: ElementState::Pressed`.
is_exit_event_any_state(ev) ==
    \/ ev.kind = "CloseRequested"
    \/ /\ ev.kind = "KeyboardInput"
       /\ ev.virtual_keycode = "Escape"

\* The pattern of lines 26-35.
is_exit_event(ev) ==
    \/ ev.kind = "CloseRequested"
    \/ /\ ev.kind = "KeyboardInput"
       /\ ev.state = "Pressed"
       /\ ev.virtual_keycode = "Escape"

\* Lines 20-49: a WindowEvent for the application's window.
on_window_event(m, cf, ev) ==
    IF ~input(m, ev)
    THEN IF is_exit_event(ev) THEN [m |-> m, cf |-> "Exit"]
         ELSE IF ev.kind = "Resized" THEN [m |-> resize(m, ev.size), cf |-> cf]
         ELSE IF ev.kind = "ScaleFactorChanged" THEN [m |-> resize(m, ev.size), cf |-> cf]
         ELSE [m |-> m, cf |-> cf]
    ELSE [m |-> m, cf |-> cf]

\* Variant of the redraw arm with the Lost and OutOfMemory arms exchanged.
on_redraw_requested_arms_swapped(m, cf, acquired) ==
    LET r == render(update(m), acquired)
    IN IF r.result = "Ok" THEN [m |-> r, cf |-> cf]
       ELSE IF r.result = "OutOfMemory" THEN [m |-> resize(r, r.self.size), cf |-> cf]
       ELSE IF r.result = "Lost" THEN [m |-> r, cf |-> "Exit"]
       ELSE [m |-> [r EXCEPT !.calls = Append(r.calls, "eprintln")], cf |-> cf]

\* Variant of the redraw arm in which every error but Lost exits.
on_redraw_requested_errors_exit(m, cf, acquired) ==
    LET r == render(update(m), acquired)
    IN IF r.result = "Ok" THEN [m |-> r, cf |-> cf]
       ELSE IF r.result = "Lost" THEN [m |-> resize(r, r.self.size), cf |-> cf]
       ELSE [m |-> r, cf |-> "Exit"]

\* Lines 51-63: RedrawRequested for the application's window.
on_redraw_requested(m, cf, acquired) ==
    LET r == render(update(m), acquired)
    IN IF r.result = "Ok" THEN [m |-> r, cf |-> cf]
       ELSE IF r.result = "Lost" THEN [m |-> resize(r, r.self.size), cf |-> cf]
       ELSE IF r.result = "OutOfMemory" THEN [m |-> r, cf |-> "Exit"]
       ELSE [m |-> [r EXCEPT !.calls = Append(r.calls, "eprintln")], cf |-> cf]

\* Variant of the closure without the window_id guards of lines 23 and 51.
event_handler_any_window(m, cf, ev, acquired) ==
    IF ev.type = "WindowEvent"
    THEN on_window_event(m, cf, ev)
    ELSE IF ev.type = "RedrawRequested"
    THEN on_redraw_requested(m, cf, acquired)
    ELSE IF ev.type = "MainEventsCleared"
    THEN [m |-> [m EXCEPT !.calls = Append(m.calls, "request_redraw")], cf |-> cf]
    ELSE [m |-> m, cf |-> cf]

\* Lines 19-70: the whole closure.
event_handler(m, cf, ev, acquired) ==
    IF ev.type = "WindowEvent" /\ ev.window_id = m.self.window
    THEN on_window_event(m, cf, ev)
    ELSE IF ev.type = "RedrawRequested" /\ ev.window_id = m.self.window
    THEN on_redraw_requested(m, cf, acquired)
    ELSE IF ev.type = "MainEventsCleared"
    THEN [m |-> [m EXCEPT !.calls = Append(m.calls, "request_redraw")], cf |-> cf]
    ELSE [m |-> m, cf |-> cf]

\* ------------------------------------------------------------------ Init
\* After run's lines 10-16.  surface.configure with a zero-area
\* configuration is outside this crate: it either panics (start-up aborts)
\* or is accepted.
Init ==
    \E inner_size \in PhysicalSize, formats \in FormatLists,
       adapter_ok \in BOOLEAN, device_ok \in BOOLEAN, zero_area_panics \in BOOLEAN :
        /\ control_flow = "Poll"
        /\ event = NoEvent
        /\ calls = <<>>
        /\ passes = <<>>
        /\ render_result = "-"
        /\ redraw_requested = FALSE
        /\ IF \/ new_panics(adapter_ok, device_ok, formats)
              \/ /\ zero_area_panics
                 /\ (inner_size.width = 0 \/ inner_size.height = 0)
           THEN phase = "failed" /\ app_state = NoAppState
           ELSE phase = "running" /\ app_state = new(inner_size, formats)

\* --------------------------------------------------------------- actions
\* One closure invocation on event ev; `acquired` is consulted by render only.
Dispatch(ev, acquired) ==
    LET out == event_handler(Machine(app_state), control_flow, ev, acquired)
    IN /\ phase = "running"
       /\ event' = ev
       /\ app_state' = out.m.self
       /\ calls' = out.m.calls
       /\ passes' = out.m.passes
       /\ render_result' = out.m.result
       /\ control_flow' = out.cf
       /\ redraw_requested' =
            IF "request_redraw" \in {out.m.calls[i] : i \in 1..Len(out.m.calls)}
            THEN TRUE
            ELSE IF ev.type = "RedrawRequested" /\ ev.window_id = OwnWindow
            THEN FALSE
            ELSE redraw_requested

CloseRequested ==
    \E wid \in WindowIds : Dispatch(CloseRequestedEv(wid), "Ok") /\ phase' = phase

KeyboardInput ==
    \E wid \in WindowIds, st \in ElementStates, key \in KeyCodes :
        Dispatch(KeyboardInputEv(wid, st, key), "Ok") /\ phase' = phase

Resized ==
    \E wid \in WindowIds, sz \in PhysicalSize :
        Dispatch(ResizedEv(wid, sz), "Ok") /\ phase' = phase

ScaleFactorChanged ==
    \E wid \in WindowIds, sz \in PhysicalSize :
        Dispatch(ScaleFactorChangedEv(wid, sz), "Ok") /\ phase' = phase

OtherWindowEvent ==
    \E wid \in WindowIds : Dispatch(FocusedEv(wid), "Ok") /\ phase' = phase

RedrawRequested ==
    \E wid \in WindowIds, acquired \in AcquireOutcomes :
        Dispatch(RedrawRequestedEv(wid), acquired) /\ phase' = phase

MainEventsCleared ==
    Dispatch(MainEventsClearedEv, "Ok") /\ phase' = phase

OtherEvent ==
    Dispatch(RedrawEventsClearedEv, "Ok") /\ phase' = phase

\* ControlFlow::Exit makes winit deliver LoopDestroyed and stop.
LoopDestroyed ==
    /\ control_flow = "Exit"
    /\ Dispatch(LoopDestroyedEv, "Ok")
    /\ phase' = "destroyed"

Next ==
    \/ CloseRequested
    \/ KeyboardInput
    \/ Resized
    \/ ScaleFactorChanged
    \/ OtherWindowEvent
    \/ RedrawRequested
    \/ MainEventsCleared
    \/ OtherEvent
    \/ LoopDestroyed

Spec == Init /\ [][Next]_vars

\* ------------------------------------------------ vocabulary of the claims
ForOwnWindow(ev) == ev.window_id = OwnWindow

IsOwnResize(ev) ==
    /\ ev.type = "WindowEvent"
    /\ ForOwnWindow(ev)
    /\ ev.kind \in {"Resized", "ScaleFactorChanged"}

IsOwnRedraw(ev) == ev.type = "RedrawRequested" /\ ForOwnWindow(ev)

IsOwnKeyboardInput(ev) ==
    ev.type = "WindowEvent" /\ ForOwnWindow(ev) /\ ev.kind = "KeyboardInput"

IsOwnCloseRequested(ev) ==
    ev.type = "WindowEvent" /\ ForOwnWindow(ev) /\ ev.kind = "CloseRequested"

IsOwnEscapePressed(ev) ==
    IsOwnKeyboardInput(ev) /\ ev.state = "Pressed" /\ ev.virtual_keycode = "Escape"

Positive(sz) == sz.width > 0 /\ sz.height > 0

\* Number of occurrences of op in a call log, and the positions it occupies.
Positions(log, op) == {i \in 1..Len(log) : log[i] = op}
Count(log, op) == Cardinality(Positions(log, op))

\* Every a in the log comes before every b.
Before(log, a, b) == \A i \in Positions(log, a), j \in Positions(log, b) : i < j

ConfigDimsMatch(cfg, sz) == cfg.width = sz.width /\ cfg.height = sz.height

\* ------------------------------------------------------------------- C1
\* C1: after a Resized or ScaleFactorChanged event for the application's
\* window with width > 0 and height > 0 has been handled, the stored size
\* and the surface configuration's width and height equal that new size,
\* and the surface was reconfigured exactly once, with that configuration.
C1_ResizeApplied ==
    (phase = "running" /\ IsOwnResize(event) /\ Positive(event.size)) =>
        /\ app_state.size = event.size
        /\ ConfigDimsMatch(app_state.surface_config, event.size)
        /\ calls = <<"configure">>
        /\ app_state.surface = app_state.surface_config

C1_Witness ==
    /\ phase = "running"
    /\ event.type = "WindowEvent" /\ ForOwnWindow(event)
    /\ event.kind = "ScaleFactorChanged"
    /\ event.size = [width |-> 1, height |-> 2]
    /\ app_state.size = [width |-> 1, height |-> 2]
    /\ app_state.surface.height = 2
    /\ Count(calls, "configure") = 1

\* ------------------------------------------------------------------- C2
\* C2: handling a resize event for the application's window whose width or
\* height is 0 leaves the stored size and the whole surface configuration
\* (and the configured surface) unchanged, makes no call at all (no
\* reconfiguration, nothing logged) and leaves the control flow as it was.
C2_ZeroResizeIgnored ==
    [][(IsOwnResize(event') /\ ~Positive(event'.size)) =>
          /\ app_state' = app_state
          /\ calls' = <<>>
          /\ render_result' = "-"
          /\ control_flow' = control_flow
          /\ phase' = phase]_vars

C2_Witness ==
    /\ phase = "running"
    /\ IsOwnResize(event)
    /\ event.size = [width |-> 2, height |-> 0]
    /\ Positive(app_state.size)
    /\ calls = <<>>
    /\ control_flow = "Poll"

\* ------------------------------------------------------------------- C3
\* C3: whenever the application state exists, the surface configuration's
\* width and height are both positive.
C3_ConfigPositive ==
    phase # "failed" =>
        app_state.surface_config.width > 0 /\ app_state.surface_config.height > 0

\* ------------------------------------------------------------------- C4
\* C4: handling CloseRequested or Escape-pressed for the application's
\* window leaves the control flow at Exit, whatever came before; handling
\* any other keyboard event (Escape released, another key, no key code)
\* leaves the control flow as it was.
C4_ExitOnCloseOrEscape ==
    [][/\ (IsOwnCloseRequested(event') \/ IsOwnEscapePressed(event')) =>
              control_flow' = "Exit"
       /\ (IsOwnKeyboardInput(event') /\ ~IsOwnEscapePressed(event')) =>
              control_flow' = control_flow]_vars

C4_Witness ==
    /\ phase = "running"
    /\ IsOwnEscapePressed(event)
    /\ control_flow = "Exit"
    /\ Positive(app_state.size)

\* ------------------------------------------------------------------- C5
\* C5: a redraw request for the application's window whose frame
\* acquisition succeeds begins exactly one render pass, with one colour
\* attachment cleared to (1,1,1,1), submits once, presents once, in the
\* order acquire, pass, submit, present, and render returns Ok without
\* touching the control flow's error paths (nothing configured or logged).
C5_SuccessfulRender ==
    (phase = "running" /\ IsOwnRedraw(event) /\ render_result = "Ok") =>
        /\ passes = << <<ClearColor>> >>
        /\ Count(calls, "get_current_texture") = 1
        /\ Count(calls, "begin_render_pass") = 1
        /\ Count(calls, "submit") = 1
        /\ Count(calls, "present") = 1
        /\ Before(calls, "get_current_texture", "begin_render_pass")
        /\ Before(calls, "begin_render_pass", "submit")
        /\ Before(calls, "submit", "present")
        /\ Count(calls, "configure") = 0
        /\ Count(calls, "eprintln") = 0

C5_Witness ==
    /\ phase = "running"
    /\ IsOwnRedraw(event)
    /\ render_result = "Ok"
    /\ Len(passes) = 1
    /\ Count(calls, "present") = 1
    /\ Positive(app_state.size)

\* ------------------------------------------------------------------- C6
\* C6: when render returns Lost on a redraw request, the same closure
\* invocation (hence before any later render attempt) reconfigures the
\* surface once, after the failed acquisition, with the stored size, and
\* the control flow is left as it was.
C6_LostReconfigures ==
    [][(IsOwnRedraw(event') /\ render_result' = "Lost") =>
          /\ Count(calls', "configure") = 1
          /\ Before(calls', "get_current_texture", "configure")
          /\ ConfigDimsMatch(app_state'.surface, app_state'.size)
          /\ control_flow' = control_flow]_vars

\* ------------------------------------------------------------------- C7
\* C7: when render returns OutOfMemory on a redraw request, the control
\* flow is Exit at the end of that same closure invocation, in which the
\* only call made is the one failed frame acquisition (no reconfiguration,
\* no second render attempt).
C7_OutOfMemoryExits ==
    (phase = "running" /\ IsOwnRedraw(event) /\ render_result = "OutOfMemory") =>
        /\ control_flow = "Exit"
        /\ calls = <<"get_current_texture">>
        /\ passes = <<>>

C7_Witness ==
    /\ phase = "running"
    /\ IsOwnRedraw(event)
    /\ render_result = "OutOfMemory"
    /\ control_flow = "Exit"
    /\ Count(calls, "configure") = 0

\* ------------------------------------------------------------------- C8
\* C8: when frame acquisition fails with an error other than Lost and
\* OutOfMemory, the error is logged once, nothing is submitted or
\* presented, no pass is begun, the application state is unchanged and the
\* control flow is left as it was.
C8_OtherErrorSkipsFrame ==
    [][(IsOwnRedraw(event') /\ render_result' \in SurfaceErrors \ {"Lost", "OutOfMemory"}) =>
          /\ calls' = <<"get_current_texture", "eprintln">>
          /\ Count(calls', "submit") = 0
          /\ Count(calls', "present") = 0
          /\ passes' = <<>>
          /\ app_state' = app_state
          /\ control_flow' = control_flow
          /\ phase' = phase]_vars

C8_Witness ==
    /\ phase = "running"
    /\ IsOwnRedraw(event)
    /\ render_result = "Timeout"
    /\ Count(calls, "eprintln") = 1
    /\ control_flow = "Poll"

\* ------------------------------------------------------------------- C9
\* C9: the control flow changes to Exit only in a closure invocation that
\* handles, for the application's window, CloseRequested, Escape pressed,
\* or a redraw whose render returned OutOfMemory; and it starts as Poll.
C9_ExitOnlyFromThree ==
    [][(control_flow # "Exit" /\ control_flow' = "Exit") =>
          \/ IsOwnCloseRequested(event')
          \/ IsOwnEscapePressed(event')
          \/ (IsOwnRedraw(event') /\ render_result' = "OutOfMemory")]_vars

C9_Witness ==
    /\ phase = "running"
    /\ control_flow = "Exit"
    /\ IsOwnCloseRequested(event)

\* ------------------------------------------------------------------ C10
\* C10: whenever the application state exists, the stored size equals the
\* surface configuration's dimensions and the configuration last applied
\* to the surface is the stored one; handling a redraw request (update and
\* render, whatever render returns) or a keyboard event (input) changes
\* neither the stored size nor the stored configuration.
SizeMatchesConfig ==
    phase # "failed" =>
        /\ ConfigDimsMatch(app_state.surface_config, app_state.size)
        /\ app_state.surface = app_state.surface_config

C10_SizeConfigConsistent ==
    /\ []SizeMatchesConfig
    /\ [][(event'.type = "RedrawRequested" \/ event'.kind = "KeyboardInput") =>
            /\ app_state'.size = app_state.size
            /\ app_state'.surface_config = app_state.surface_config]_vars

C10_Witness ==
    /\ phase = "running"
    /\ IsOwnRedraw(event)
    /\ render_result = "Lost"
    /\ Count(calls, "configure") = 1
    /\ app_state.size = [width |-> 2, height |-> 1]
    /\ app_state.surface_config.width = 2

====
